---------------------------- MODULE Spec2Model ----------------------------
(***************************************************************************)
(* A model of the storefront demo: the product middleware (onRequest,      *)
(* executeGraphQL, fetchProductById, formatProduct), the Storefront        *)
(* utilities (queryStorefront, searchProducts, getProductByHandle,         *)
(* getFeaturedProducts, getRecentProducts, getShopifyProducts), the API    *)
(* worker's GET routes, the cart widget (ShopifyCart.jsx) and the search   *)
(* widget (ProductSearch.jsx).                                             *)
(*                                                                         *)
(* Text is modelled as a sequence of pieces: a digit is one piece, and a   *)
(* fixed fragment of a message that holds no digit is one piece too, so    *)
(* that String.includes('403') is a search for three consecutive pieces.   *)
(* The three components share no state; the variable sys says which of     *)
(* them a behaviour runs.                                                  *)
(***************************************************************************)
EXTENDS Integers, Sequences, FiniteSets, TLC

VARIABLES
    sys,         \* "server" | "cart" | "search": the component that runs;
                 \* "recent": saveRecentSearch alone, on terms of its own;
                 \* "price": the price formatting of the product reads alone
    env,         \* import.meta.env: SHOPIFY_DOMAIN and SHOPIFY_ACCESS_TOKEN
    pc,          \* where the server operation stands
    op,          \* the server operation in progress
    currentTry,  \* queryStorefront's loop counter
    sent,        \* the log of upstream calls of this operation (the ids sent)
    lastReply,   \* the upstream answer that the operation handled last
    delays,      \* the backoff delays queryStorefront has waited, in ms
    result,      \* what the operation's caller observes
    widget,      \* the cart widget: "unmounted" | "ready" | "crashed"
    cart,        \* the cart widget's state
    storage,     \* localStorage's shopifyCart entry
    notifTimers,     \* pending 3000 ms notification timers
    checkoutTimers,  \* pending 1000 ms checkout timers
    query,           \* the search widget: the text of its input
    results,         \* the products it lists
    isSearching,     \* its spinner
    isResultsOpen,   \* its dropdown
    searchError,     \* error is set
    recentSearches,  \* the recent searches it holds
    storedSearches,  \* localStorage's recentProductSearches entry
    debounce,        \* the pending 300 ms timer and the query it closes over
    inflight,        \* the queries of the upstream calls in flight
    priced           \* the prices of the product that a read returned last

serverVars == <<env, pc, op, currentTry, sent, lastReply, delays, result>>
cartVars == <<widget, cart, storage, notifTimers, checkoutTimers>>
searchVars ==
    <<query, results, isSearching, isResultsOpen, searchError, recentSearches,
      storedSearches, debounce, inflight>>
vars == <<sys, serverVars, cartVars, searchVars, priced>>

---------------------------------------------------------------------------
(* Bounds of the model.                                                    *)

\* the longest product id, handle or search term, in pieces
MaxIdLen == 3

---------------------------------------------------------------------------
(* Text.                                                                   *)

Digits == <<"0", "1", "2", "3", "4", "5", "6", "7", "8", "9">>

RECURSIVE NatToChars(_)
\* Number-to-string conversion of a template literal: `${response.status}`.
NatToChars(n) ==
    IF n < 10 THEN <<Digits[n + 1]>>
    ELSE NatToChars(n \div 10) \o <<Digits[(n % 10) + 1]>>

\* String.prototype.includes.
Includes(s, pat) ==
    \E i \in 1..(Len(s) - Len(pat) + 1) : SubSeq(s, i, i + Len(pat) - 1) = pat

\* The pieces that end with a slash.
SlashPieces == {"gid://", "shopify/Product/"}

RECURSIVE LastSegment(_)
\* s.split('/').pop(): what follows the last slash.
LastSegment(s) ==
    IF s = <<>> THEN <<>>
    ELSE IF s[Len(s)] \in SlashPieces THEN <<>>
    ELSE LastSegment(SubSeq(s, 1, Len(s) - 1)) \o <<s[Len(s)]>>

\* The characters a product id is typed from.
IdChars == {"0", "3", "4"}

RECURSIVE SeqsUpTo(_, _)
SeqsUpTo(S, n) ==
    IF n = 0 THEN {<<>>}
    ELSE LET shorter == SeqsUpTo(S, n - 1)
         IN  shorter \cup {Append(s, c) : s \in {t \in shorter : Len(t) = n - 1}, c \in S}

\* Raw ids: non-empty digit strings.
RawIds == SeqsUpTo(IdChars, MaxIdLen) \ {<<>>}

\* `gid://shopify/Product/${productId}`
GidOf(productId) == <<"gid://", "shopify/Product/">> \o productId


---------------------------------------------------------------------------
(* The upstream API: what one fetch of the GraphQL endpoint can answer.    *)

\* messages of the upstream's errors list
ErrTexts ==
    { <<"Not found">>,
      <<"Access denied for field">>,
      <<"Error code ", "4", "0", "4">>,
      <<"4", "2", "9", " Too Many Requests">>,
      <<"Limit ", "1", "4", "0", "3", "0">> }

\* errors lists of a parsed envelope, when the field is present
ErrorLists ==
    {<<>>} \cup {<<m>> : m \in ErrTexts}
           \cup { <<(<<"Not found">>), (<<"Error code ", "4", "0", "4">>)>>,
                  <<(<<"4", "2", "9", " Too Many Requests">>), (<<"Not found">>)>> }

\* the most product edges a list answer carries
MaxEdges == 2

\* data of an envelope: the product field (null or an object) of a product
\* query, the number of product edges of a list query
DataValues(shape) ==
    IF shape = "product"
    THEN {[product |-> b, edges |-> 0] : b \in BOOLEAN}
    ELSE {[product |-> FALSE, edges |-> n] : n \in 0..MaxEdges}

NoData == [product |-> FALSE, edges |-> 0]

UnparseableBody ==
    [parses |-> FALSE, hasErrors |-> FALSE, errors |-> <<>>, hasData |-> FALSE, data |-> NoData]

\* the GraphQLResponse<T> envelopes: { data?, errors?[] }
Envelopes(shape) ==
    {[parses |-> TRUE, hasErrors |-> FALSE, errors |-> <<>>, hasData |-> FALSE, data |-> NoData]}
    \cup {[parses |-> TRUE, hasErrors |-> FALSE, errors |-> <<>>, hasData |-> TRUE, data |-> d] :
            d \in DataValues(shape)}
    \cup {[parses |-> TRUE, hasErrors |-> TRUE, errors |-> e, hasData |-> FALSE, data |-> NoData] :
            e \in ErrorLists}
    \cup {[parses |-> TRUE, hasErrors |-> TRUE, errors |-> e, hasData |-> TRUE, data |-> d] :
            e \in ErrorLists, d \in DataValues(shape)}

\* HTTP statuses the upstream answers with
OkStatuses == {200}
FailStatuses == {403, 404, 429, 500, 503}

\* bodies that come with a non-success status
FailBodies(shape) ==
    { UnparseableBody,
      [parses |-> TRUE, hasErrors |-> TRUE, errors |-> <<(<<"Not found">>)>>,
       hasData |-> FALSE, data |-> NoData] }
    \cup {[parses |-> TRUE, hasErrors |-> FALSE, errors |-> <<>>, hasData |-> TRUE, data |-> d] :
            d \in DataValues(shape)}

NetworkFailure == [net |-> FALSE, status |-> 0, body |-> UnparseableBody]

NoReply == [net |-> FALSE, status |-> -1, body |-> UnparseableBody]

Replies(shape) ==
    {NetworkFailure}
    \cup {[net |-> TRUE, status |-> s, body |-> b] :
            s \in OkStatuses, b \in {UnparseableBody} \cup Envelopes(shape)}
    \cup {[net |-> TRUE, status |-> s, body |-> b] : s \in FailStatuses, b \in FailBodies(shape)}

\* Response.ok
ResponseOk(reply) == reply.status >= 200 /\ reply.status <= 299

---------------------------------------------------------------------------
(* Errors.  A thrown Error carries only its message; kind and code name    *)
(* the place that threw it.                                                *)

Err(kind, code, message) == [kind |-> kind, code |-> code, message |-> message]

NoErr == Err("none", 0, <<>>)

Failure(e) == [ok |-> FALSE, err |-> e, data |-> NoData]

Success(d) == [ok |-> TRUE, err |-> NoErr, data |-> d]

---------------------------------------------------------------------------
(* The product middleware: configuration.                                  *)

DefaultDomain == "your-store.myshopify.com"
DefaultToken == "your-access-token"

\* values of the two environment variables; "" is unset or empty
DomainValues == {"", "demo-shop.myshopify.com"}
TokenValues == {"", "shpat_0123"}

\* (import.meta.env[key] as string) || defaultValue
getEnvVariable(value, defaultValue) == IF value = "" THEN defaultValue ELSE value

SHOPIFY_DOMAIN == getEnvVariable(env.SHOPIFY_DOMAIN, DefaultDomain)
SHOPIFY_ACCESS_TOKEN == getEnvVariable(env.SHOPIFY_ACCESS_TOKEN, DefaultToken)

\* Configured as soon as one of the two is set.
isShopifyConfiguredEither ==
    SHOPIFY_DOMAIN # DefaultDomain \/ SHOPIFY_ACCESS_TOKEN # DefaultToken

isShopifyConfigured ==
    SHOPIFY_DOMAIN # DefaultDomain /\ SHOPIFY_ACCESS_TOKEN # DefaultToken

---------------------------------------------------------------------------
(* The product middleware: the GraphQL client and the product fetch.       *)

\* A client that returns the data whenever the envelope carries some.
executeGraphQLDataFirst(reply) ==
    IF ~reply.net
    THEN Failure(Err("Network", 0, <<"fetch failed">>))
    ELSE IF ~ResponseOk(reply)
    THEN Failure(Err("HttpStatus", reply.status,
                     <<"Shopify GraphQL error: ">> \o NatToChars(reply.status)))
    ELSE IF ~reply.body.parses
    THEN Failure(Err("InvalidPayload", 0, <<"Invalid JSON response from Shopify">>))
    ELSE IF reply.body.hasData
    THEN Success(reply.body.data)
    ELSE IF reply.body.hasErrors /\ Len(reply.body.errors) > 0
    THEN Failure(Err("GraphQLError", 0, reply.body.errors[1]))
    ELSE Failure(Err("EmptyResponse", 0, <<"No data returned from Shopify">>))

executeGraphQL(reply) ==
    IF ~reply.net
    THEN Failure(Err("Network", 0, <<"fetch failed">>))
    ELSE IF ~ResponseOk(reply)
    THEN Failure(Err("HttpStatus", reply.status,
                     <<"Shopify GraphQL error: ">> \o NatToChars(reply.status)))
    ELSE IF ~reply.body.parses
    THEN Failure(Err("InvalidPayload", 0, <<"Invalid JSON response from Shopify">>))
    ELSE IF reply.body.hasErrors /\ Len(reply.body.errors) > 0
    THEN Failure(Err("GraphQLError", 0, reply.body.errors[1]))
    ELSE IF ~reply.body.hasData
    THEN Failure(Err("EmptyResponse", 0, <<"No data returned from Shopify">>))
    ELSE Success(reply.body.data)

NoProduct == [source |-> "none", id |-> <<>>]

\* The product object the upstream holds for an id it was asked for.
UpstreamProduct(id) == [id |-> GidOf(LastSegment(id))]

formatProduct(product) == [source |-> "upstream", id |-> LastSegment(product.id)]

\* { ...MOCK_PRODUCT, id }
MockProduct(id) == [source |-> "mock", id |-> id]

Fetched(product) == [ok |-> TRUE, err |-> NoErr, product |-> product]

FetchFailed(e) == [ok |-> FALSE, err |-> e, product |-> NoProduct]

\* A fetch that hands a null product on as an absent one.
fetchProductByIdAbsent(id, reply) ==
    LET r == executeGraphQL(reply)
    IN  IF ~r.ok THEN FetchFailed(r.err)
        ELSE IF ~r.data.product THEN Fetched(NoProduct)
        ELSE Fetched(formatProduct(UpstreamProduct(id)))

fetchProductById(id, reply) ==
    LET r == executeGraphQL(reply)
    IN  IF ~r.ok THEN FetchFailed(r.err)
        ELSE IF ~r.data.product
        THEN FetchFailed(Err("NotFound", 0, <<"Product not found: ">> \o id))
        ELSE Fetched(formatProduct(UpstreamProduct(id)))

---------------------------------------------------------------------------
(* The product middleware: requests and responses.                         *)

Methods == {"GET", "OPTIONS", "POST", "DELETE"}

\* A pathname is the list of its segments, each a text.
ProductPath(id) == <<(<<"api">>), (<<"shopify">>), (<<"products">>), id>>

\* the pathname "/"
IndexPath == <<(<<>>)>>

\* url.pathname.match(/^\/api\/shopify\/products\/[^\/]+$/)
RouteMatches(path) ==
    /\ Len(path) = 4
    /\ path[1] = <<"api">>
    /\ path[2] = <<"shopify">>
    /\ path[3] = <<"products">>
    /\ path[4] # <<>>

\* url.pathname.split('/').pop()
PathProductId(path) == path[Len(path)]

\* statuses of the responses the handlers behind the middleware produce
NextStatuses == {200, 404}

\* "12345678", index.astro's fallback id
SampleProductId == <<"1", "2", "3", "4", "5", "6", "7", "8">>

\* values of the index page's productId query parameter; <<>> is none
PageParams == {<<>>} \cup RawIds \cup {GidOf(id) : id \in RawIds}

Requests ==
    {[method |-> m, path |-> ProductPath(id), param |-> <<>>, nextStatus |-> n] :
        m \in Methods, id \in RawIds \cup {<<>>}, n \in NextStatuses}
    \cup {[method |-> m, path |-> ProductPath(<<"4">>) \o <<(<<"reviews">>)>>, param |-> <<>>,
           nextStatus |-> n] : m \in Methods, n \in NextStatuses}
    \cup {[method |-> "GET", path |-> IndexPath, param |-> q, nextStatus |-> 200] :
            q \in PageParams}

CorsHeaders ==
    { "Access-Control-Allow-Origin: *",
      "Access-Control-Allow-Methods: GET, OPTIONS",
      "Access-Control-Allow-Headers: Content-Type, Authorization" }

JsonHeaders == {"Content-Type: application/json"} \cup CorsHeaders

NoResult ==
    [kind |-> "none", status |-> 0, body |-> "none", headers |-> {}, product |-> NoProduct,
     message |-> <<>>, details |-> <<>>, err |-> NoErr, count |-> 0, maxAge |-> 0]

\* new Response(null, { status: 204, headers })
PreflightResponse ==
    [NoResult EXCEPT !.kind = "response", !.status = 204, !.body = "empty",
                     !.headers = CorsHeaders]

\* new Response(JSON.stringify({ product }), { status: 200, ... })
ProductResponse(product) ==
    [NoResult EXCEPT !.kind = "response", !.status = 200, !.body = "product",
                     !.headers = JsonHeaders, !.product = product]

\* the status the catch block of onRequest derives from the message
SniffedStatus(errorMessage) ==
    IF Includes(errorMessage, <<"4", "0", "3">>) THEN 403
    ELSE IF Includes(errorMessage, <<"4", "0", "4">>) THEN 404
    ELSE IF Includes(errorMessage, <<"4", "2", "9">>) THEN 429
    ELSE 500

userFriendlyMessage(errorMessage) ==
    IF Includes(errorMessage, <<"4", "0", "3">>)
    THEN <<"Authentication error with Shopify. Please check your access token and permissions.">>
    ELSE IF Includes(errorMessage, <<"4", "0", "4">>)
    THEN <<"Product not found or API endpoint is incorrect.">>
    ELSE IF Includes(errorMessage, <<"4", "2", "9">>)
    THEN <<"Rate limit exceeded. Too many requests to Shopify API.">>
    ELSE errorMessage

ErrorResponse(e) ==
    [NoResult EXCEPT !.kind = "response", !.status = SniffedStatus(e.message),
                     !.body = "error", !.headers = JsonHeaders,
                     !.message = userFriendlyMessage(e.message), !.details = e.message,
                     !.err = e]

\* what next() resolves to: the response of the handler behind the middleware
NextResponse(req) ==
    [NoResult EXCEPT !.kind = "next", !.status = req.nextStatus, !.body = "next"]

\* index.astro rendered with the product, or with the error's message
PageResponse(fetched) ==
    [NoResult EXCEPT !.kind = "page", !.status = 200, !.body = "page",
                     !.product = fetched.product, !.err = fetched.err,
                     !.message = fetched.err.message]

---------------------------------------------------------------------------
(* The Storefront utilities: queryStorefront and the operations on it.     *)

\* queryStorefront's default number of retries
Retries == 2

\* One pass of queryStorefront's loop body: the envelope, or what it throws.
StorefrontAttempt(reply) ==
    IF ~reply.net
    THEN Failure(Err("Network", 0, <<"fetch failed">>))
    ELSE IF ~ResponseOk(reply)
    THEN Failure(Err("HttpStatus", reply.status,
                     <<"HTTP error! Status: ">> \o NatToChars(reply.status)))
    ELSE IF ~reply.body.parses
    THEN Failure(Err("InvalidPayload", 0, <<"Unexpected token in JSON">>))
    ELSE IF reply.body.hasErrors
    THEN IF Len(reply.body.errors) > 0
         THEN Failure(Err("GraphQLError", 0, reply.body.errors[1]))
         ELSE Failure(Err("TypeError", 0, <<"Cannot read properties of undefined">>))
    ELSE [ok |-> TRUE, err |-> NoErr,
          data |-> IF reply.body.hasData THEN reply.body.data ELSE NoData,
          hasData |-> reply.body.hasData]

\* Math.pow(2, currentTry) * 1000
BackoffDelay(try) == (2 ^ try) * 1000

\* what an operation hands to its caller
Returned(body, n, product) ==
    [NoResult EXCEPT !.kind = "value", !.body = body, !.count = n, !.product = product]

Threw(e) == [NoResult EXCEPT !.kind = "throw", !.body = "none", !.err = e]

DataTypeError == Err("TypeError", 0, <<"Cannot read properties of undefined">>)

\* searchProducts and getRecentProducts after queryStorefront has returned
ListOrThrow(hasData, data) ==
    IF hasData THEN Returned("list", data.edges, NoProduct) ELSE Threw(DataTypeError)

\* getFeaturedProducts after queryStorefront has returned
FeaturedList(hasData, data) ==
    IF ~hasData THEN Returned("list", 0, NoProduct)
    ELSE Returned("list", data.edges, NoProduct)

\* getProductByHandle after queryStorefront has returned
HandleProduct(handle, hasData, data) ==
    IF ~hasData \/ ~data.product THEN Returned("null", 0, NoProduct)
    ELSE Returned("product", 0, [source |-> "upstream", id |-> handle])

\* the catch block of each operation on queryStorefront
StorefrontCatch(kind, e) ==
    IF kind = "getByHandle" THEN Returned("null", 0, NoProduct) ELSE Threw(e)

\* the operation's continuation once queryStorefront has returned
StorefrontThen(kind, arg, hasData, data) ==
    IF kind = "getByHandle" THEN HandleProduct(arg, hasData, data)
    ELSE IF kind = "featured" THEN FeaturedList(hasData, data)
    ELSE ListOrThrow(hasData, data)

\* getShopifyProducts from its fetch on: every failure ends in its catch
ShopifyProductsResult(reply) ==
    IF ~reply.net \/ ~ResponseOk(reply) \/ ~reply.body.parses \/ ~reply.body.hasData
    THEN Returned("list", 0, NoProduct)
    ELSE Returned("list", reply.body.data.edges, NoProduct)

\* the characters of a search term or a handle
TermChars == {"a", "b"}

Terms == SeqsUpTo(TermChars, MaxIdLen)

\* the operations of the Storefront utilities that go through queryStorefront
StorefrontKinds == {"search", "getByHandle", "featured", "recent"}

\* the shape of the data an operation's query asks for
ShapeOf(kind) == IF kind \in {"request", "getByHandle"} THEN "product" ELSE "list"

NoRequest == [method |-> "", path |-> <<>>, param |-> <<>>, nextStatus |-> 0]

NoCreds == [domain |-> FALSE, token |-> FALSE]

\* via: "route" or "page" for a request; given: whether the argument was passed
Operation(kind, via, req, arg, given, creds) ==
    [kind |-> kind, via |-> via, req |-> req, arg |-> arg, given |-> given, creds |-> creds]

NoOp == Operation("none", "", NoRequest, <<>>, FALSE, NoCreds)

---------------------------------------------------------------------------
(* The product middleware: onRequest.                                      *)

\* productId.includes('gid://') ? productId : `gid://shopify/Product/${productId}`
FormattedId(productId) ==
    IF Includes(productId, <<"gid://">>) THEN productId ELSE GidOf(productId)

\* urlProductId || "12345678"
PageProductId(req) == IF req.param = <<>> THEN SampleProductId ELSE req.param

\* locals.shopify.getProductById(id) up to its first await: the id it sends
\* upstream, or none in demo mode, where it waits 500 ms for the mock
LocalsGetProductById(id) ==
    IF isShopifyConfigured
    THEN [pc |-> "awaitFetch", sent |-> <<id>>]
    ELSE [pc |-> "mockDelay", sent |-> <<>>]

Step(opv, pcv, sentv, resultv) ==
    [op |-> opv, pc |-> pcv, sent |-> sentv, result |-> resultv]

\* next(): behind it, a GET of "/" runs the frontmatter of index.astro up to
\* its await of locals.shopify.getProductById
CallNext(req) ==
    IF req.path = IndexPath /\ req.method = "GET"
    THEN LET id == PageProductId(req)
             call == LocalsGetProductById(id)
         IN  Step(Operation("request", "page", req, id, TRUE, NoCreds),
                  call.pc, call.sent, NoResult)
    ELSE Step(Operation("request", "next", req, <<>>, FALSE, NoCreds),
              "done", <<>>, NextResponse(req))

\* A preflight answered only once the store is configured.
HandleOptionsWhenConfigured(req) ==
    IF isShopifyConfigured
    THEN Step(Operation("request", "route", req, <<>>, FALSE, NoCreds),
              "done", <<>>, PreflightResponse)
    ELSE CallNext(req)

\* if (request.method === 'OPTIONS') return new Response(null, ...)
HandleOptions(req) ==
    Step(Operation("request", "route", req, <<>>, FALSE, NoCreds),
         "done", <<>>, PreflightResponse)

\* A middleware that rejects the methods it does not serve.
HandleOtherMethodRejects(req) ==
    Step(Operation("request", "route", req, <<>>, FALSE, NoCreds), "done", <<>>,
         [NoResult EXCEPT !.kind = "response", !.status = 405, !.body = "empty",
                          !.headers = CorsHeaders])

\* if (request.method !== 'GET') return next()
HandleOtherMethod(req) == CallNext(req)

\* A handler that asks the upstream without looking at the configuration.
HandleGetAlwaysFetches(req) ==
    LET productId == PathProductId(req.path)
        this == Operation("request", "route", req, productId, TRUE, NoCreds)
    IN  IF productId = <<>>
        THEN Step(this, "done", <<>>,
                  ErrorResponse(Err("Required", 0, <<"Product ID is required">>)))
        ELSE Step(this, "awaitFetch", <<FormattedId(productId)>>, NoResult)

\* the try block of onRequest up to its await, or to the demo response
HandleGet(req) ==
    LET productId == PathProductId(req.path)
        this == Operation("request", "route", req, productId, TRUE, NoCreds)
    IN  IF productId = <<>>
        THEN Step(this, "done", <<>>,
                  ErrorResponse(Err("Required", 0, <<"Product ID is required">>)))
        ELSE IF isShopifyConfigured
        THEN Step(this, "awaitFetch", <<FormattedId(productId)>>, NoResult)
        ELSE Step(this, "done", <<>>, ProductResponse(MockProduct(productId)))

\* onRequest up to the first await or to the response
OnRequest(req) ==
    IF ~RouteMatches(req.path) THEN CallNext(req)
    ELSE IF req.method = "OPTIONS" THEN HandleOptions(req)
    ELSE IF req.method # "GET" THEN HandleOtherMethod(req)
    ELSE HandleGet(req)

Receive(req) ==
    /\ sys = "server"
    /\ pc = "idle"
    /\ LET s == OnRequest(req)
       IN  /\ op' = s.op
           /\ pc' = s.pc
           /\ sent' = s.sent
           /\ result' = s.result
    /\ UNCHANGED <<priced, cartVars, searchVars, sys, env, currentTry, lastReply, delays>>

\* the rest of onRequest, or of the page's frontmatter, once the fetch settles
RequestReply ==
    /\ sys = "server"
    /\ pc = "awaitFetch"
    /\ op.kind = "request"
    /\ \E reply \in Replies("product") :
          /\ lastReply' = reply
          /\ LET r == fetchProductById(sent[Len(sent)], reply)
             IN  result' = IF op.via = "page" THEN PageResponse(r)
                           ELSE IF r.ok THEN ProductResponse(r.product)
                           ELSE ErrorResponse(r.err)
    /\ pc' = "done"
    /\ UNCHANGED <<priced, cartVars, searchVars, sys, env, op, currentTry, sent, delays>>

\* the demo getProductById of locals.shopify after its 500 ms
MockDelayElapsed ==
    /\ sys = "server"
    /\ pc = "mockDelay"
    /\ result' = PageResponse(Fetched(MockProduct(op.arg)))
    /\ pc' = "done"
    /\ UNCHANGED <<priced, cartVars, searchVars, sys, env, op, currentTry, sent, lastReply, delays>>

---------------------------------------------------------------------------
(* The Storefront utilities: the operations.                               *)

\* A guard that turns away only the missing and the empty term.
SearchTooShortEmptyOnly(term, given) == ~given \/ term = <<>>

\* !searchQuery || searchQuery.length < 2
SearchTooShort(term, given) == ~given \/ term = <<>> \/ Len(term) < 2

\* searchProducts(searchQuery)
CallSearch(term, given) ==
    /\ sys = "server"
    /\ pc = "idle"
    /\ op' = Operation("search", "", NoRequest, term, given, NoCreds)
    /\ IF SearchTooShort(term, given)
       THEN /\ pc' = "done"
            /\ sent' = <<>>
            /\ result' = Returned("list", 0, NoProduct)
       ELSE /\ pc' = "awaitFetch"
            /\ sent' = <<term>>
            /\ result' = NoResult
    /\ UNCHANGED <<priced, cartVars, searchVars, sys, env, currentTry, lastReply, delays>>

\* getProductByHandle(handle)
CallGetByHandle(handle) ==
    /\ sys = "server"
    /\ pc = "idle"
    /\ op' = Operation("getByHandle", "", NoRequest, handle, TRUE, NoCreds)
    /\ IF handle = <<>>
       THEN /\ pc' = "done"
            /\ sent' = <<>>
            /\ result' = Returned("null", 0, NoProduct)
       ELSE /\ pc' = "awaitFetch"
            /\ sent' = <<handle>>
            /\ result' = NoResult
    /\ UNCHANGED <<priced, cartVars, searchVars, sys, env, currentTry, lastReply, delays>>

\* getFeaturedProducts() and getRecentProducts()
CallProducts(kind) ==
    /\ sys = "server"
    /\ pc = "idle"
    /\ op' = Operation(kind, "", NoRequest, <<>>, FALSE, NoCreds)
    /\ pc' = "awaitFetch"
    /\ sent' = <<(<<>>)>>
    /\ result' = NoResult
    /\ UNCHANGED <<priced, cartVars, searchVars, sys, env, currentTry, lastReply, delays>>

\* A loop that counts the first attempt among its retries.
StorefrontReplyCountsFirst ==
    /\ sys = "server"
    /\ pc = "awaitFetch"
    /\ op.kind \in StorefrontKinds
    /\ \E reply \in Replies(ShapeOf(op.kind)) :
          /\ lastReply' = reply
          /\ LET a == StorefrontAttempt(reply)
             IN  IF a.ok
                 THEN /\ result' = StorefrontThen(op.kind, op.arg, a.hasData, a.data)
                      /\ pc' = "done"
                      /\ UNCHANGED <<currentTry, delays>>
                 ELSE /\ currentTry' = currentTry + 1
                      /\ IF currentTry + 1 >= Retries
                         THEN /\ result' = StorefrontCatch(op.kind, a.err)
                              /\ pc' = "done"
                              /\ UNCHANGED delays
                         ELSE /\ pc' = "backoff"
                              /\ delays' = Append(delays, BackoffDelay(currentTry + 1))
                              /\ UNCHANGED result
    /\ UNCHANGED <<priced, cartVars, searchVars, sys, env, op, sent>>

\* queryStorefront when its fetch settles: return, retry after a delay, or
\* rethrow into the operation's catch
StorefrontReply ==
    /\ sys = "server"
    /\ pc = "awaitFetch"
    /\ op.kind \in StorefrontKinds
    /\ \E reply \in Replies(ShapeOf(op.kind)) :
          /\ lastReply' = reply
          /\ LET a == StorefrontAttempt(reply)
             IN  IF a.ok
                 THEN /\ result' = StorefrontThen(op.kind, op.arg, a.hasData, a.data)
                      /\ pc' = "done"
                      /\ UNCHANGED <<currentTry, delays>>
                 ELSE /\ currentTry' = currentTry + 1
                      /\ IF currentTry + 1 > Retries
                         THEN /\ result' = StorefrontCatch(op.kind, a.err)
                              /\ pc' = "done"
                              /\ UNCHANGED delays
                         ELSE /\ pc' = "backoff"
                              /\ delays' = Append(delays, BackoffDelay(currentTry + 1))
                              /\ UNCHANGED result
    /\ UNCHANGED <<priced, cartVars, searchVars, sys, env, op, sent>>

\* the backoff timer fires and the loop fetches again
BackoffElapsed ==
    /\ sys = "server"
    /\ pc = "backoff"
    /\ pc' = "awaitFetch"
    /\ sent' = Append(sent, op.arg)
    /\ UNCHANGED <<priced, cartVars, searchVars, sys, env, op, currentTry, lastReply, delays, result>>

\* getShopifyProducts({ limit, featured }): reads its credentials on each call
CallShopifyProducts(creds) ==
    /\ sys = "server"
    /\ pc = "idle"
    /\ op' = Operation("list", "", NoRequest, <<>>, FALSE, creds)
    /\ IF ~creds.domain \/ ~creds.token
       THEN /\ pc' = "done"
            /\ sent' = <<>>
            /\ result' = Returned("list", 0, NoProduct)
       ELSE /\ pc' = "awaitFetch"
            /\ sent' = <<(<<>>)>>
            /\ result' = NoResult
    /\ UNCHANGED <<priced, cartVars, searchVars, sys, env, currentTry, lastReply, delays>>

ShopifyProductsReply ==
    /\ sys = "server"
    /\ pc = "awaitFetch"
    /\ op.kind = "list"
    /\ \E reply \in Replies("list") :
          /\ lastReply' = reply
          /\ result' = ShopifyProductsResult(reply)
    /\ pc' = "done"
    /\ UNCHANGED <<priced, cartVars, searchVars, sys, env, op, currentTry, sent, delays>>

---------------------------------------------------------------------------
(* The API worker: src/pages/api/shopify.ts.  Its product fetchers return  *)
(* mock data and call no upstream.                                         *)

\* Cache time in seconds (1 hour)
CACHE_TIME == 3600

\* the GET routes of the worker that the model answers
WorkerRoutes == {"products", "product", "cart"}

\* c.json(..., 200, { 'Cache-Control': `public, max-age=${CACHE_TIME}` }) of
\* the two product routes, c.json(...) of /api/cart; maxAge is the max-age of
\* the response's Cache-Control header, 0 when it has none
WorkerResponse(route, id, limit) ==
    [NoResult EXCEPT
        !.kind = "response",
        !.status = 200,
        !.body = route,
        !.headers = {"Content-Type: application/json", "Access-Control-Allow-Origin: *"},
        !.maxAge = IF route \in {"products", "product"} THEN CACHE_TIME ELSE 0,
        !.product = IF route = "product" THEN [source |-> "worker", id |-> id]
                    ELSE NoProduct,
        !.count = IF route = "products" THEN limit ELSE 0]

\* app.get('/api/products'), app.get('/api/products/:id'), app.get('/api/cart')
WorkerGet(route, id, limit) ==
    /\ sys = "server"
    /\ pc = "idle"
    /\ op' = Operation("worker", route, NoRequest, id, TRUE, NoCreds)
    /\ pc' = "done"
    /\ sent' = <<>>
    /\ result' = WorkerResponse(route, id, limit)
    /\ UNCHANGED <<priced, cartVars, searchVars, sys, env, currentTry, lastReply, delays>>

\* the caller has the result; the next operation starts from scratch
Finish ==
    /\ sys = "server"
    /\ pc = "done"
    /\ pc' = "idle"
    /\ op' = NoOp
    /\ currentTry' = 0
    /\ sent' = <<>>
    /\ lastReply' = NoReply
    /\ delays' = <<>>
    /\ result' = NoResult
    /\ UNCHANGED <<priced, cartVars, searchVars, sys, env>>

---------------------------------------------------------------------------
(* The cart widget: src/components/shopify/ShopifyCart.jsx.                *)
(*                                                                         *)
(* Prices are amounts in cents (29.99 is 2999), so that price * quantity   *)
(* and the sums of them are exact.  A CartItem keeps its id, price and     *)
(* quantity; its title and image play no part in what the cart computes.   *)

\* the products a product:added-to-cart event can name
ProductIds == {"p1", "p2"}

\* the productPrice an event carries; 0 stands for every falsy price
EventPrices == {0, 500}

\* productPrice || 29.99
DefaultPrice == 2999

\* the largest quantity of one item
MaxQty == 3

\* the most notification timers, and checkout timers, pending at once
MaxTimers == 2

NoNotification == [type |-> "none", about |-> ""]

\* useState's initial cart
InitialCart ==
    [id |-> "", items |-> <<>>, total |-> 0, isOpen |-> FALSE,
     isLoading |-> TRUE, notification |-> NoNotification]

\* the cart initializeCart creates when nothing is stored
FreshCart ==
    [id |-> "checkout_now", items |-> <<>>, total |-> 0, isOpen |-> FALSE,
     isLoading |-> FALSE, notification |-> NoNotification]

\* A total that keeps only the last item's line.
ItemsTotalLastLine(items) ==
    IF items = <<>> THEN 0
    ELSE items[Len(items)].price * items[Len(items)].quantity

\* items.reduce((sum, item) => sum + (item.price * item.quantity), 0)
RECURSIVE ItemsTotal(_)
ItemsTotal(items) ==
    IF items = <<>> THEN 0
    ELSE ItemsTotal(SubSeq(items, 1, Len(items) - 1))
         + items[Len(items)].price * items[Len(items)].quantity

\* items.findIndex(item => item.id === productId), counted from 1; 0 is
\* JavaScript's -1
findIndex(items, productId) ==
    IF \E i \in 1..Len(items) : items[i].id = productId
    THEN CHOOSE i \in 1..Len(items) :
            /\ items[i].id = productId
            /\ \A j \in 1..(i - 1) : items[j].id # productId
    ELSE 0

productInfo(productId, productPrice) ==
    [id |-> productId,
     price |-> IF productPrice = 0 THEN DefaultPrice ELSE productPrice,
     quantity |-> 1]

\* handleAddToCart's updatedItems when the product is in no item
AppendItem(items, productId, productPrice) ==
    Append(items, productInfo(productId, productPrice))

\* An add that never looks for the product among the items.
AddedItemsAlwaysAppended(items, productId, productPrice) ==
    AppendItem(items, productId, productPrice)

\* handleAddToCart's updatedItems
AddedItems(items, productId, productPrice) ==
    LET existingItemIndex == findIndex(items, productId)
    IN  IF existingItemIndex >= 1
        THEN [items EXCEPT ![existingItemIndex].quantity = @ + 1]
        ELSE AppendItem(items, productId, productPrice)

\* updateQuantity's updatedItems
QuantityItems(items, itemId, newQuantity) ==
    [i \in 1..Len(items) |->
        IF items[i].id = itemId
        THEN [items[i] EXCEPT !.quantity = newQuantity]
        ELSE items[i]]

\* A removal that also drops every item after the removed one.
RemainingItemsBefore(items, itemId) ==
    SubSeq(items, 1, findIndex(items, itemId) - 1)

\* removeItem's updatedItems
RemainingItems(items, itemId) ==
    SelectSeq(items, LAMBDA item : item.id # itemId)

\* A quantity change that takes every value.
updateQuantityUnguarded(c, itemId, newQuantity) ==
    LET updatedItems == QuantityItems(c.items, itemId, newQuantity)
    IN  [set |-> TRUE,
         cart |-> [c EXCEPT !.items = updatedItems,
                            !.total = ItemsTotal(updatedItems)]]

\* updateQuantity(itemId, newQuantity) on the cart c: whether it calls
\* setCart, and the cart it sets
updateQuantity(c, itemId, newQuantity) ==
    IF newQuantity < 1
    THEN [set |-> FALSE, cart |-> c]
    ELSE LET updatedItems == QuantityItems(c.items, itemId, newQuantity)
         IN  [set |-> TRUE,
              cart |-> [c EXCEPT !.items = updatedItems,
                                 !.total = ItemsTotal(updatedItems)]]

\* removeItem(itemId) on the cart c: the cart it sets; about is "" for the
\* message 'Item removed' of an id that no item has
removeItem(c, itemId) ==
    LET removedItem == findIndex(c.items, itemId)
        updatedItems == RemainingItems(c.items, itemId)
    IN  [c EXCEPT !.items = updatedItems,
                  !.total = ItemsTotal(updatedItems),
                  !.notification =
                      [type |-> "info",
                       about |-> IF removedItem >= 1 THEN itemId ELSE ""]]

\* localStorage's shopifyCart entry.  JSON.stringify followed by JSON.parse
\* gives back a cart of this model as it was: its fields are strings,
\* booleans, finite numbers and lists or records of them.
NoBlob == [kind |-> "none", cart |-> InitialCart]
UnparseableBlob == [kind |-> "unparseable", cart |-> InitialCart]
FieldlessBlob == [kind |-> "fieldless", cart |-> InitialCart]
Stringify(c) == [kind |-> "cart", cart |-> c]

\* the effect on [cart]: the cart is stored unless it is loading
Persisted(c, stored) ==
    IF ~c.isLoading THEN Stringify(c) ELSE stored

\* what the cart widget's state becomes
CartStep(c) ==
    /\ cart' = c
    /\ storage' = Persisted(c, storage)

\* the mount effect: initializeCart, and the event listener is attached
Mount ==
    /\ sys = "cart"
    /\ widget = "unmounted"
    /\ CASE storage.kind = "none" ->
              /\ CartStep(FreshCart)
              /\ widget' = "ready"
         [] storage.kind = "cart" ->
              /\ CartStep([storage.cart EXCEPT !.isLoading = FALSE])
              /\ widget' = "ready"
         [] storage.kind = "unparseable" ->
              /\ CartStep([cart EXCEPT !.isLoading = FALSE])
              /\ widget' = "ready"
         [] storage.kind = "fieldless" ->
              \* {isLoading: false}: the render reads items.length of a
              \* cart without items and throws; no effect runs after it
              /\ cart' = [cart EXCEPT !.isLoading = FALSE]
              /\ storage' = storage
              /\ widget' = "crashed"
    /\ UNCHANGED <<notifTimers, checkoutTimers>>
    /\ UNCHANGED <<sys, priced, serverVars, searchVars>>

\* handleAddToCart, and the 3000 ms timer it starts
AddToCart(productId, productPrice) ==
    /\ sys = "cart"
    /\ widget = "ready"
    /\ notifTimers < MaxTimers
    /\ \A i \in 1..Len(cart.items) :
          cart.items[i].id = productId => cart.items[i].quantity < MaxQty
    /\ LET updatedItems == AddedItems(cart.items, productId, productPrice)
       IN  CartStep([cart EXCEPT
                        !.items = updatedItems,
                        !.total = ItemsTotal(updatedItems),
                        !.isOpen = TRUE,
                        !.isLoading = FALSE,
                        !.notification =
                            [type |-> "success", about |-> productId]])
    /\ notifTimers' = notifTimers + 1
    /\ UNCHANGED <<widget, checkoutTimers>>
    /\ UNCHANGED <<sys, priced, serverVars, searchVars>>

\* a click on an item's - or + button: updateQuantity(item.id, quantity -+ 1)
UpdateQuantity(i, newQuantity) ==
    /\ sys = "cart"
    /\ widget = "ready"
    /\ cart.isOpen
    /\ i \in 1..Len(cart.items)
    /\ newQuantity \in {cart.items[i].quantity - 1, cart.items[i].quantity + 1}
    /\ newQuantity <= MaxQty
    /\ LET update == updateQuantity(cart, cart.items[i].id, newQuantity)
       IN  IF update.set
           THEN CartStep(update.cart)
           ELSE UNCHANGED <<cart, storage>>
    /\ UNCHANGED <<widget, notifTimers, checkoutTimers>>
    /\ UNCHANGED <<sys, priced, serverVars, searchVars>>

\* a click on an item's Remove button: removeItem(item.id), and its timer
RemoveItem(i) ==
    /\ sys = "cart"
    /\ widget = "ready"
    /\ cart.isOpen
    /\ i \in 1..Len(cart.items)
    /\ notifTimers < MaxTimers
    /\ CartStep(removeItem(cart, cart.items[i].id))
    /\ notifTimers' = notifTimers + 1
    /\ UNCHANGED <<widget, checkoutTimers>>
    /\ UNCHANGED <<sys, priced, serverVars, searchVars>>

\* the cart button (disabled while loading) or Continue Shopping
ToggleCart ==
    /\ sys = "cart"
    /\ widget = "ready"
    /\ ~cart.isLoading \/ cart.isOpen
    /\ CartStep([cart EXCEPT !.isOpen = ~cart.isOpen])
    /\ UNCHANGED <<widget, notifTimers, checkoutTimers>>
    /\ UNCHANGED <<sys, priced, serverVars, searchVars>>

\* the Checkout button, disabled when the cart is empty or loading
Checkout ==
    /\ sys = "cart"
    /\ widget = "ready"
    /\ cart.isOpen
    /\ cart.items # <<>>
    /\ ~cart.isLoading
    /\ checkoutTimers < MaxTimers
    /\ CartStep([cart EXCEPT !.isLoading = TRUE])
    /\ checkoutTimers' = checkoutTimers + 1
    /\ UNCHANGED <<widget, notifTimers>>
    /\ UNCHANGED <<sys, priced, serverVars, searchVars>>

\* checkout's 1000 ms timer
CheckoutTimerFires ==
    /\ sys = "cart"
    /\ widget = "ready"
    /\ checkoutTimers > 0
    /\ CartStep([cart EXCEPT !.isLoading = FALSE])
    /\ checkoutTimers' = checkoutTimers - 1
    /\ UNCHANGED <<widget, notifTimers>>
    /\ UNCHANGED <<sys, priced, serverVars, searchVars>>

\* a 3000 ms notification timer
NotificationTimerFires ==
    /\ sys = "cart"
    /\ widget = "ready"
    /\ notifTimers > 0
    /\ CartStep([cart EXCEPT !.notification = NoNotification])
    /\ notifTimers' = notifTimers - 1
    /\ UNCHANGED <<widget, checkoutTimers>>
    /\ UNCHANGED <<sys, priced, serverVars, searchVars>>

\* the page is loaded again: state and timers are gone, the storage stays
ReloadCart ==
    /\ sys = "cart"
    /\ widget # "unmounted"
    /\ widget' = "unmounted"
    /\ cart' = InitialCart
    /\ notifTimers' = 0
    /\ checkoutTimers' = 0
    /\ UNCHANGED storage
    /\ UNCHANGED <<sys, priced, serverVars, searchVars>>

CartIdle ==
    /\ widget = "unmounted"
    /\ cart = InitialCart
    /\ storage = NoBlob
    /\ notifTimers = 0
    /\ checkoutTimers = 0

---------------------------------------------------------------------------
(* The search widget: src/components/shopify/ProductSearch.jsx.            *)
(*                                                                         *)
(* The list of recent searches is drawn only inside the open dropdown and  *)
(* only for a query shorter than 2 characters, and the dropdown is closed  *)
(* whenever the query becomes that short: handleRecentSearchClick has no   *)
(* button a user can reach, and is no action here.                         *)

\* the characters of a typed query: only its length and identity matter
QueryChars == {"a"}

\* the longest query typed
MaxQueryLen == 3

\* the most searches in flight at once
MaxInflight == 2

\* .slice(0, 5)
RecentLimit == 5

Queries == SeqsUpTo(QueryChars, MaxQueryLen)

\* results: how many products, and the query they answer; [] is NoResults
NoResults == [for |-> <<>>, n |-> 0]

NoTimer == [armed |-> FALSE, q |-> <<>>]

\* the widget's own searchProducts from its fetch on: the number of
\* products, or a failure (every throw ends in performSearch's catch)
WidgetSearchResult(reply) ==
    IF \/ ~reply.net
       \/ ~ResponseOk(reply)
       \/ ~reply.body.parses
       \/ reply.body.hasErrors
       \/ ~reply.body.hasData
    THEN [ok |-> FALSE, n |-> 0]
    ELSE [ok |-> TRUE, n |-> reply.body.data.edges]

\* A list that takes the term in front without looking for it further down.
UpdatedRecentKeepsRepeats(prev, searchQuery) ==
    LET all == <<searchQuery>> \o prev
    IN  SubSeq(all, 1, IF Len(all) < RecentLimit THEN Len(all) ELSE RecentLimit)

\* [searchQuery, ...prev.filter(s => s !== searchQuery)].slice(0, 5)
UpdatedRecent(prev, searchQuery) ==
    LET all == <<searchQuery>> \o SelectSeq(prev, LAMBDA s : s # searchQuery)
    IN  SubSeq(all, 1, IF Len(all) < RecentLimit THEN Len(all) ELSE RecentLimit)

\* saveRecentSearch's list
SavedRecent(prev, searchQuery) ==
    IF Len(searchQuery) < 2 THEN prev ELSE UpdatedRecent(prev, searchQuery)

\* the debounce effect's test of the query
LongEnough(q) == Len(q) >= 2

\* An effect whose timer outlives a change to a query too short to search.
QueryEffectKeepsTimer(q) ==
    IF LongEnough(q)
    THEN /\ isSearching' = TRUE
         /\ isResultsOpen' = TRUE
         /\ debounce' = [armed |-> TRUE, q |-> q]
         /\ UNCHANGED results
    ELSE /\ results' = NoResults
         /\ isResultsOpen' = FALSE
         /\ UNCHANGED <<debounce, isSearching>>

\* the effect on [query]: its cleanup clears the timer of the query before
QueryEffect(q) ==
    IF LongEnough(q)
    THEN /\ isSearching' = TRUE
         /\ isResultsOpen' = TRUE
         /\ debounce' = [armed |-> TRUE, q |-> q]
         /\ UNCHANGED results
    ELSE /\ results' = NoResults
         /\ isResultsOpen' = FALSE
         /\ debounce' = NoTimer
         /\ UNCHANGED isSearching

\* handleInputChange with a value other than the query
TypeQuery(q) ==
    /\ sys = "search"
    /\ q # query
    /\ query' = q
    /\ QueryEffect(q)
    /\ UNCHANGED <<searchError, recentSearches, storedSearches, inflight>>
    /\ UNCHANGED <<sys, priced, serverVars, cartVars>>

\* clearSearch; its button is drawn for a query that is not empty
ClearSearch ==
    /\ sys = "search"
    /\ query # <<>>
    /\ query' = <<>>
    /\ QueryEffect(<<>>)
    /\ UNCHANGED <<searchError, recentSearches, storedSearches, inflight>>
    /\ UNCHANGED <<sys, priced, serverVars, cartVars>>

\* the input's onFocus
FocusInput ==
    /\ sys = "search"
    /\ Len(query) >= 2
    /\ isResultsOpen' = TRUE
    /\ UNCHANGED <<query, results, isSearching, searchError, recentSearches,
                   storedSearches, debounce, inflight>>
    /\ UNCHANGED <<sys, priced, serverVars, cartVars>>

\* Escape, or a mouse press outside the widget
CloseResults ==
    /\ sys = "search"
    /\ isResultsOpen' = FALSE
    /\ UNCHANGED <<query, results, isSearching, searchError, recentSearches,
                   storedSearches, debounce, inflight>>
    /\ UNCHANGED <<sys, priced, serverVars, cartVars>>

\* performSearch up to its await: the upstream call is started
StartSearch(searchQuery) ==
    /\ Len(inflight) < MaxInflight
    /\ searchError' = FALSE
    /\ inflight' = Append(inflight, searchQuery)

\* the 300 ms timer fires
DebounceFires ==
    /\ sys = "search"
    /\ debounce.armed
    /\ StartSearch(debounce.q)
    /\ debounce' = NoTimer
    /\ UNCHANGED <<query, results, isSearching, isResultsOpen, recentSearches,
                   storedSearches>>
    /\ UNCHANGED <<sys, priced, serverVars, cartVars>>

\* the Try again button, drawn in the open dropdown under an error
TryAgain ==
    /\ sys = "search"
    /\ isResultsOpen
    /\ searchError
    /\ StartSearch(query)
    /\ UNCHANGED <<query, results, isSearching, isResultsOpen, recentSearches,
                   storedSearches, debounce>>
    /\ UNCHANGED <<sys, priced, serverVars, cartVars>>

\* A widget that drops the answer to a query that is no longer the input's.
SearchResolvesForInputOnly ==
    /\ sys = "search"
    /\ \E i \in 1..Len(inflight), reply \in Replies("edges") :
          LET searchQuery == inflight[i]
              found == WidgetSearchResult(reply)
          IN  /\ inflight' = SubSeq(inflight, 1, i - 1)
                               \o SubSeq(inflight, i + 1, Len(inflight))
              /\ IF searchQuery # query
                 THEN UNCHANGED <<results, recentSearches, storedSearches, searchError>>
                 ELSE IF found.ok
                 THEN /\ results' = IF found.n > 0
                                    THEN [for |-> searchQuery, n |-> found.n]
                                    ELSE NoResults
                      /\ recentSearches' =
                            IF found.n > 0
                            THEN SavedRecent(recentSearches, searchQuery)
                            ELSE recentSearches
                      /\ storedSearches' =
                            IF found.n > 0 /\ Len(searchQuery) >= 2
                            THEN SavedRecent(recentSearches, searchQuery)
                            ELSE storedSearches
                      /\ UNCHANGED searchError
                 ELSE /\ searchError' = TRUE
                      /\ UNCHANGED <<results, recentSearches, storedSearches>>
    /\ isSearching' = FALSE
    /\ UNCHANGED <<query, isResultsOpen, debounce>>
    /\ UNCHANGED <<sys, priced, serverVars, cartVars>>

\* performSearch after its await: the upstream call i is answered
SearchResolves ==
    /\ sys = "search"
    /\ \E i \in 1..Len(inflight), reply \in Replies("edges") :
          LET searchQuery == inflight[i]
              found == WidgetSearchResult(reply)
          IN  /\ inflight' = SubSeq(inflight, 1, i - 1)
                               \o SubSeq(inflight, i + 1, Len(inflight))
              /\ IF found.ok
                 THEN /\ results' = IF found.n > 0
                                    THEN [for |-> searchQuery, n |-> found.n]
                                    ELSE NoResults
                      /\ recentSearches' =
                            IF found.n > 0
                            THEN SavedRecent(recentSearches, searchQuery)
                            ELSE recentSearches
                      /\ storedSearches' =
                            IF found.n > 0 /\ Len(searchQuery) >= 2
                            THEN SavedRecent(recentSearches, searchQuery)
                            ELSE storedSearches
                      /\ UNCHANGED searchError
                 ELSE /\ searchError' = TRUE
                      /\ UNCHANGED <<results, recentSearches, storedSearches>>
    /\ isSearching' = FALSE
    /\ UNCHANGED <<query, isResultsOpen, debounce>>
    /\ UNCHANGED <<sys, priced, serverVars, cartVars>>

\* the page is loaded again: the stored recent searches are read back
ReloadSearch ==
    /\ sys = "search"
    /\ query' = <<>>
    /\ results' = NoResults
    /\ isSearching' = FALSE
    /\ isResultsOpen' = FALSE
    /\ searchError' = FALSE
    /\ recentSearches' = storedSearches
    /\ debounce' = NoTimer
    /\ inflight' = <<>>
    /\ UNCHANGED storedSearches
    /\ UNCHANGED <<sys, priced, serverVars, cartVars>>

\* the longest term handed to saveRecentSearch when it runs alone
MaxSavedLen == 7

SavedTerms == SeqsUpTo(QueryChars, MaxSavedLen)

\* saveRecentSearch(searchQuery): the list it sets and stores
SaveRecent(searchQuery) ==
    /\ sys = "recent"
    /\ recentSearches' = SavedRecent(recentSearches, searchQuery)
    /\ storedSearches' = IF Len(searchQuery) < 2
                         THEN storedSearches
                         ELSE SavedRecent(recentSearches, searchQuery)
    /\ UNCHANGED <<query, results, isSearching, isResultsOpen, searchError,
                   debounce, inflight>>
    /\ UNCHANGED <<sys, priced, serverVars, cartVars>>

SearchIdle ==
    /\ query = <<>>
    /\ results = NoResults
    /\ isSearching = FALSE
    /\ isResultsOpen = FALSE
    /\ searchError = FALSE
    /\ recentSearches = <<>>
    /\ storedSearches = <<>>
    /\ debounce = NoTimer
    /\ inflight = <<>>

---------------------------------------------------------------------------
(* The prices of a product, as each read of the product service formats    *)
(* them from the node the upstream returned.                               *)

\* the amounts of a minVariantPrice are the multiples of 5.00 up to this many
MaxPriceSteps == 4

\* amounts in cents
Amounts == {k * 500 : k \in 1..MaxPriceSteps}

\* priceRange.minVariantPrice.amount and compareAtPriceRange of a node; the
\* upstream may leave compareAtPriceRange null
PriceNodes == [amount : Amounts, hasCompareAt : BOOLEAN, compareAtAmount : Amounts]

\* a price field of a returned product: null or undefined, the upstream's
\* decimal string as it came, or the string formatPrice made of it
AbsentPrice == [present |-> FALSE, cents |-> 0, formatted |-> FALSE]

RawPrice(amount) == [present |-> TRUE, cents |-> amount, formatted |-> FALSE]

\* Intl.NumberFormat currency formatting of parseFloat(amount)
formatPrice(amount) == [present |-> TRUE, cents |-> amount, formatted |-> TRUE]

\* getFeaturedProducts, searchProducts, getProductByHandle, getRecentProducts
StorefrontPrices(node) ==
    [price |-> formatPrice(node.amount),
     compareAtPrice |->
        IF node.hasCompareAt /\ node.compareAtAmount > node.amount
        THEN formatPrice(node.compareAtAmount)
        ELSE AbsentPrice]

\* formatProduct of the middleware, behind fetchProductById
formatProductPrices(node) ==
    [price |-> RawPrice(node.amount),
     compareAtPrice |->
        IF node.hasCompareAt THEN RawPrice(node.compareAtAmount) ELSE AbsentPrice]

PricesOf(read, node) ==
    IF read = "getById" THEN formatProductPrices(node) ELSE StorefrontPrices(node)

NoPriced ==
    [read |-> "none",
     node |-> [amount |-> 0, hasCompareAt |-> FALSE, compareAtAmount |-> 0],
     product |-> [price |-> AbsentPrice, compareAtPrice |-> AbsentPrice]]

\* a read returns a product whose node the upstream answered
ReadProduct(read, node) ==
    /\ sys = "price"
    /\ priced' = [read |-> read, node |-> node, product |-> PricesOf(read, node)]
    /\ UNCHANGED <<sys, serverVars, cartVars, searchVars>>

PriceIdle == priced = NoPriced

---------------------------------------------------------------------------
(* The three components.                                                   *)

ServerIdle ==
    /\ env = [SHOPIFY_DOMAIN |-> "", SHOPIFY_ACCESS_TOKEN |-> ""]
    /\ pc = "idle"
    /\ op = NoOp
    /\ currentTry = 0
    /\ sent = <<>>
    /\ lastReply = NoReply
    /\ delays = <<>>
    /\ result = NoResult

InitServer ==
    /\ sys = "server"
    /\ env \in [SHOPIFY_DOMAIN : DomainValues, SHOPIFY_ACCESS_TOKEN : TokenValues]
    /\ pc = "idle"
    /\ op = NoOp
    /\ currentTry = 0
    /\ sent = <<>>
    /\ lastReply = NoReply
    /\ delays = <<>>
    /\ result = NoResult
    /\ CartIdle
    /\ SearchIdle
    /\ PriceIdle

NextServer ==
    \/ \E req \in Requests : Receive(req)
    \/ RequestReply
    \/ MockDelayElapsed
    \/ \E term \in Terms : CallSearch(term, TRUE)
    \/ CallSearch(<<>>, FALSE)
    \/ \E handle \in Terms : CallGetByHandle(handle)
    \/ \E kind \in {"featured", "recent"} : CallProducts(kind)
    \/ StorefrontReply
    \/ BackoffElapsed
    \/ \E creds \in [domain : BOOLEAN, token : BOOLEAN] : CallShopifyProducts(creds)
    \/ ShopifyProductsReply
    \/ \E id \in RawIds : WorkerGet("product", id, 0)
    \/ \E limit \in 0..MaxEdges : WorkerGet("products", <<>>, limit)
    \/ WorkerGet("cart", <<>>, 0)
    \/ Finish

SpecServer == InitServer /\ [][NextServer]_vars

\* the page before the cart widget has mounted; the shopifyCart entry is
\* absent, or was left there unreadable or without the cart's fields
InitCart ==
    /\ sys = "cart"
    /\ widget = "unmounted"
    /\ cart = InitialCart
    /\ storage \in {NoBlob, UnparseableBlob, FieldlessBlob}
    /\ notifTimers = 0
    /\ checkoutTimers = 0
    /\ ServerIdle
    /\ SearchIdle
    /\ PriceIdle

NextCart ==
    \/ Mount
    \/ \E productId \in ProductIds, productPrice \in EventPrices :
          AddToCart(productId, productPrice)
    \/ \E i \in 1..Cardinality(ProductIds), newQuantity \in 0..MaxQty :
          UpdateQuantity(i, newQuantity)
    \/ \E i \in 1..Cardinality(ProductIds) : RemoveItem(i)
    \/ ToggleCart
    \/ Checkout
    \/ CheckoutTimerFires
    \/ NotificationTimerFires
    \/ ReloadCart

SpecCart == InitCart /\ [][NextCart]_vars

\* the search widget after its mount, nothing stored
InitSearch ==
    /\ sys = "search"
    /\ SearchIdle
    /\ ServerIdle
    /\ CartIdle
    /\ PriceIdle

NextSearch ==
    \/ \E q \in Queries : TypeQuery(q)
    \/ ClearSearch
    \/ FocusInput
    \/ CloseResults
    \/ DebounceFires
    \/ TryAgain
    \/ SearchResolves
    \/ ReloadSearch

SpecSearch == InitSearch /\ [][NextSearch]_vars

\* the operations on queryStorefront; each fetch settles and each backoff
\* timer fires
NextStorefront ==
    \/ \E term \in Terms : CallSearch(term, TRUE)
    \/ CallSearch(<<>>, FALSE)
    \/ \E handle \in Terms : CallGetByHandle(handle)
    \/ \E kind \in {"featured", "recent"} : CallProducts(kind)
    \/ StorefrontReply
    \/ BackoffElapsed
    \/ Finish

\* the utilities do not read the middleware's configuration
InitStorefront ==
    /\ sys = "server"
    /\ ServerIdle
    /\ CartIdle
    /\ SearchIdle
    /\ PriceIdle

SpecStorefront ==
    /\ InitStorefront
    /\ [][NextStorefront]_vars
    /\ WF_vars(StorefrontReply)
    /\ WF_vars(BackoffElapsed)

\* the search widget within one load of the page
NextSession ==
    \/ \E q \in Queries : TypeQuery(q)
    \/ ClearSearch
    \/ FocusInput
    \/ CloseResults
    \/ DebounceFires
    \/ TryAgain
    \/ SearchResolves

SpecSession == InitSearch /\ [][NextSession]_vars

\* search on both sides: searchProducts on the server, the widget in the page
InitSearching == InitServer \/ InitSearch

NextSearching == NextServer \/ NextSearch

SpecSearching == InitSearching /\ [][NextSearching]_vars

\* saveRecentSearch alone, from the empty list
InitRecent ==
    /\ sys = "recent"
    /\ SearchIdle
    /\ ServerIdle
    /\ CartIdle
    /\ PriceIdle

NextRecent == \E searchQuery \in SavedTerms : SaveRecent(searchQuery)

\* the recent searches: in the widget, and saveRecentSearch alone on enough
\* terms to fill the list
InitRecents == InitSearch \/ InitRecent

NextRecents == NextSearch \/ NextRecent

SpecRecents == InitRecents /\ [][NextRecents]_vars

\* the price formatting alone, on the nodes the upstream can return
InitPrice ==
    /\ sys = "price"
    /\ PriceIdle
    /\ ServerIdle
    /\ CartIdle
    /\ SearchIdle

\* the reads of the product service, each on a node of the upstream
NextPrice ==
    \E read \in {"getById", "getByHandle", "search", "featured", "recent"},
       node \in PriceNodes : ReadProduct(read, node)

SpecPrices == InitPrice /\ [][NextPrice]_vars

Init == InitServer \/ InitCart \/ InitSearch

Next == NextServer \/ NextCart \/ NextSearch

Spec == Init /\ [][Next]_vars

---------------------------------------------------------------------------
(* Properties of the product route and of the product operations.          *)

\* a request on the product route that the middleware has taken
OnProductRoute == op.kind = "request" /\ RouteMatches(op.req.path)

\* the store domain or the access token is not set
DemoMode == env.SHOPIFY_DOMAIN = "" \/ env.SHOPIFY_ACCESS_TOKEN = ""

\* a GET on the product route whose product fetch has failed
FailedProductGet ==
    /\ OnProductRoute
    /\ op.req.method = "GET"
    /\ pc = "done"
    /\ lastReply # NoReply
    /\ result.err # NoErr

\* C1: for a GET on the product route whose product fetch fails, the status
\* follows the kind of the failure: 403, 404 or 429 when the upstream answered
\* that HTTP status, 500 for every other failure, whatever the product id and
\* whatever the error text.
C1_StatusFollowsErrorKind ==
    FailedProductGet =>
        result.status =
            IF result.err.kind = "HttpStatus" /\ result.err.code \in {403, 404, 429}
            THEN result.err.code
            ELSE 500

\* C2: every OPTIONS request on the product route is answered at once with
\* status 204, an empty body and the static CORS headers, in configured and in
\* demo mode, with no upstream call and without next().
C2_PreflightAnswered ==
    (OnProductRoute /\ op.req.method = "OPTIONS") =>
        /\ pc = "done"
        /\ result.kind = "response"
        /\ result.status = 204
        /\ result.body = "empty"
        /\ result.headers = CorsHeaders
        /\ sent = <<>>

C2_Witness ==
    /\ OnProductRoute
    /\ op.req.method = "OPTIONS"
    /\ DemoMode
    /\ PathProductId(op.req.path) = <<"4", "0", "4">>
    /\ result.status = 204

\* C3: the GraphQL client yields one outcome, chosen by the first check that
\* applies: non-success status -> HttpStatus(code); unparseable body ->
\* InvalidPayload; non-empty errors list -> GraphQLError with the first
\* message, data or not; no data field -> EmptyResponse; otherwise the data is
\* returned (and the product fetch goes on to the product field).
C3_ExecuteOutcomeInOrder ==
    (op.kind = "request" /\ pc = "done" /\ lastReply # NoReply /\ lastReply.net) =>
        LET b == lastReply.body
            e == result.err
        IN  IF lastReply.status # 200
            THEN e.kind = "HttpStatus" /\ e.code = lastReply.status
            ELSE IF ~b.parses
            THEN e.kind = "InvalidPayload"
            ELSE IF b.hasErrors /\ b.errors # <<>>
            THEN e.kind = "GraphQLError" /\ e.message = Head(b.errors)
            ELSE IF ~b.hasData
            THEN e.kind = "EmptyResponse"
            ELSE /\ e.kind \in {"none", "NotFound"}
                 /\ (e.kind = "none") = b.data.product
                 /\ (e.kind = "none") = (result.product.source = "upstream")

\* an envelope with an empty errors list and a data field was a success
C3_Witness ==
    /\ op.kind = "request"
    /\ pc = "done"
    /\ lastReply.net
    /\ lastReply.status = 200
    /\ lastReply.body.parses
    /\ lastReply.body.hasErrors
    /\ lastReply.body.errors = <<>>
    /\ lastReply.body.hasData
    /\ result.err = NoErr
    /\ result.product.source = "upstream"

\* the upstream call that the operation handled last has failed
UpstreamFailed ==
    /\ lastReply # NoReply
    /\ \/ ~lastReply.net
       \/ ~ResponseOk(lastReply)
       \/ ~lastReply.body.parses
       \/ (lastReply.body.hasErrors /\ lastReply.body.errors # <<>>)
       \/ ~lastReply.body.hasData

\* the operation's caller observes a failure
ObservesFailure ==
    \/ result.kind = "throw"
    \/ (result.kind = "response" /\ result.body = "error")
    \/ (result.kind = "page" /\ result.err # NoErr)

\* C4: no product operation turns a failed upstream call into a normal
\* result: when the upstream call fails, the caller observes a failure, never
\* an empty list or an absent product.
C4_FailurePropagates ==
    (pc = "done" /\ UpstreamFailed) => ObservesFailure

\* C5: in demo mode every GET on the product route responds 200 with the mock
\* product carrying the requested id, with no upstream call; the mock product
\* is returned only in demo mode.
C5_DemoModeServesMock ==
    /\ (OnProductRoute /\ op.req.method = "GET" /\ DemoMode) =>
          /\ pc = "done"
          /\ sent = <<>>
          /\ result.kind = "response"
          /\ result.status = 200
          /\ result.product = [source |-> "mock", id |-> PathProductId(op.req.path)]
    /\ (result.product.source = "mock") => DemoMode

C5_Witness ==
    /\ OnProductRoute
    /\ op.req.method = "GET"
    /\ env.SHOPIFY_DOMAIN # ""
    /\ env.SHOPIFY_ACCESS_TOKEN = ""
    /\ result.status = 200
    /\ result.product.id = <<"4", "0", "3">>

\* C6: a request on the product route whose method is neither GET nor OPTIONS
\* goes to next(): no upstream call, no response of the middleware's own, and
\* the response is the one the next handler produces.
C6_OtherMethodsPassThrough ==
    (OnProductRoute /\ op.req.method \notin {"GET", "OPTIONS"}) =>
        /\ pc = "done"
        /\ sent = <<>>
        /\ result.kind = "next"
        /\ result.status = op.req.nextStatus
        /\ result.headers = {}

C6_Witness ==
    /\ OnProductRoute
    /\ op.req.method = "DELETE"
    /\ op.req.nextStatus = 404
    /\ result.kind = "next"
    /\ result.status = 404

\* an id in fully qualified URI form
IsUri(id) == Len(id) >= 2 /\ id[1] = "gid://" /\ id[2] = "shopify/Product/"

\* C7: every id that getById sends upstream, for the product route and for
\* locals.shopify.getProductById alike, is in URI form: a raw id n goes as
\* gid://shopify/Product/n, an id in URI form goes unchanged.
C7_IdSentInUriForm ==
    (op.kind = "request" /\ sent # <<>>) =>
        /\ IsUri(sent[1])
        /\ sent[1] = IF IsUri(op.arg) THEN op.arg ELSE GidOf(op.arg)

\* the upstream answered successfully, with a null product
NullProductAnswer ==
    /\ lastReply # NoReply
    /\ lastReply.net
    /\ lastReply.status = 200
    /\ lastReply.body.parses
    /\ ~lastReply.body.hasErrors
    /\ lastReply.body.hasData
    /\ ~lastReply.body.data.product

\* C8: on a successful upstream answer with a null product, getByHandle
\* returns absent without failing, and getById fails with a not-found error.
C8_NullProductAsymmetry ==
    (pc = "done" /\ NullProductAnswer) =>
        /\ op.kind = "getByHandle" => (result.kind = "value" /\ result.body = "null")
        /\ op.kind = "request" =>
              /\ ObservesFailure
              /\ result.err.kind = "NotFound"
              /\ result.product = NoProduct

C8_Witness ==
    /\ pc = "done"
    /\ NullProductAnswer
    /\ op.kind = "getByHandle"
    /\ currentTry = 0
    /\ result.kind = "value"
    /\ result.body = "null"

\* C9: a search term of fewer than 2 characters, the empty and the missing
\* term included, makes searchProducts return an empty list with no
\* upstream call; the search widget never has a debounce timer pending,
\* nor an upstream call in flight, for a query of fewer than 2 characters.
C9_ShortTermsNeverSearched ==
    /\ (sys = "server" /\ op.kind = "search" /\ (~op.given \/ Len(op.arg) < 2))
          => /\ sent = <<>>
             /\ pc = "done"
             /\ result.kind = "value" /\ result.body = "list" /\ result.count = 0
    /\ debounce.armed => Len(debounce.q) >= 2
    /\ \A i \in 1..Len(inflight) : Len(inflight[i]) >= 2

\* searchProducts has answered a term of one character
C9_Witness ==
    /\ sys = "server"
    /\ op.kind = "search"
    /\ op.given
    /\ Len(op.arg) = 1
    /\ pc = "done"
    /\ result.body = "list"
    /\ sent = <<>>

---------------------------------------------------------------------------
(* Properties of the cart widget.                                          *)

NoSharedIds(items) ==
    \A i, j \in 1..Len(items) : items[i].id = items[j].id => i = j

\* a step of handleAddToCart: the only one that starts a notification
\* timer under a success notification
AddStep ==
    /\ notifTimers' = notifTimers + 1
    /\ cart'.notification.type = "success"

AddStepAsSpecified ==
    LET productId == cart'.notification.about
        old == cart.items
        new == cart'.items
    IN  IF \E i \in 1..Len(old) : old[i].id = productId
        THEN /\ Len(new) = Len(old)
             /\ \A i \in 1..Len(old) :
                   /\ new[i].id = old[i].id
                   /\ new[i].price = old[i].price
                   /\ new[i].quantity =
                        IF old[i].id = productId
                        THEN old[i].quantity + 1 ELSE old[i].quantity
             /\ (Len(old) = 1 /\ old[1].quantity = 1)
                   => cart'.total = old[1].price * 2
        ELSE /\ Len(new) = Len(old) + 1
             /\ SubSeq(new, 1, Len(old)) = old
             /\ new[Len(new)].id = productId
             /\ new[Len(new)].quantity = 1

\* C10: no two CartItems ever share a product id; an add for an id in the
\* cart adds exactly 1 to that item's quantity and leaves every other item
\* and the order as they were; an add for a new id appends one item of
\* quantity 1; the second add of the only item gives quantity 2 and a
\* total of twice its price.
C10_AddKeepsIdsUnique ==
    /\ [](NoSharedIds(cart.items))
    /\ [][AddStep => AddStepAsSpecified]_vars

\* the same product added twice to an empty cart
C10_Witness ==
    /\ sys = "cart"
    /\ widget = "ready"
    /\ Len(cart.items) = 1
    /\ cart.items[1].quantity = 2
    /\ cart.total = 2 * cart.items[1].price
    /\ cart.notification.type = "success"
    /\ cart.notification.about = cart.items[1].id

\* the sum over all items of price x quantity, from the first item on
RECURSIVE SumOfLines(_)
SumOfLines(items) ==
    IF items = <<>> THEN 0
    ELSE Head(items).price * Head(items).quantity + SumOfLines(Tail(items))

\* C11: in every state of the cart, from a fresh cart or from a cart this
\* component stored earlier, whatever adds, quantity changes, removals,
\* toggles, checkouts and timers came before, total is the sum over all
\* items of price x quantity.
C11_TotalIsSumOfLines ==
    sys = "cart" => cart.total = SumOfLines(cart.items)

\* two items of different prices, the first of quantity 2 or more, while a
\* checkout is in progress
C11_Witness ==
    /\ sys = "cart"
    /\ widget = "ready"
    /\ Len(cart.items) = 2
    /\ cart.items[1].quantity >= 2
    /\ cart.items[1].price # cart.items[2].price
    /\ cart.isLoading
    /\ cart.total > 0

\* the cart widget is drawn with its dropdown open
CartShown == sys = "cart" /\ widget = "ready" /\ cart.isOpen

\* C12: every CartItem of every cart state has an integer quantity of at
\* least 1, and a quantity change to a value below 1 sets no cart: items,
\* total and notification stay as they are.
C12_QuantityAtLeastOne ==
    /\ \A i \in 1..Len(cart.items) :
          cart.items[i].quantity \in Nat /\ cart.items[i].quantity >= 1
    /\ CartShown =>
          \A i \in 1..Len(cart.items), newQuantity \in {-1, 0} :
             LET update == updateQuantity(cart, cart.items[i].id, newQuantity)
             IN  ~update.set /\ update.cart = cart

\* the - button of an item of quantity 1 can be clicked, next to an item
\* of a larger quantity
C12_Witness ==
    /\ CartShown
    /\ Len(cart.items) = 2
    /\ cart.items[1].quantity = 1
    /\ cart.items[2].quantity >= 2
    /\ cart.notification.type = "none"

\* C13: decreasing the quantity of a CartItem whose quantity is 1 removes
\* that CartItem from the cart.
C13_LastUnitRemovesItem ==
    CartShown =>
        \A i \in 1..Len(cart.items) :
           cart.items[i].quantity = 1 =>
              LET update == updateQuantity(cart, cart.items[i].id,
                                           cart.items[i].quantity - 1)
              IN  /\ update.set
                  /\ \A j \in 1..Len(update.cart.items) :
                        update.cart.items[j].id # cart.items[i].id

\* a step of removeItem: the only one that starts a notification timer
\* under an info notification
RemoveStep ==
    /\ notifTimers' = notifTimers + 1
    /\ cart'.notification.type = "info"

RemoveStepAsSpecified ==
    LET itemId == cart'.notification.about
        old == cart.items
        new == cart'.items
    IN  /\ \E k \in 1..Len(old) :
              /\ old[k].id = itemId
              /\ new = SubSeq(old, 1, k - 1) \o SubSeq(old, k + 1, Len(old))
        /\ cart'.total = SumOfLines(new)
        /\ Len(old) = 1 => (new = <<>> /\ cart'.total = 0)

\* removeItem for an id that no item of the cart has
RemoveAbsentAsSpecified ==
    \A itemId \in ProductIds :
       (\A i \in 1..Len(cart.items) : cart.items[i].id # itemId) =>
           /\ removeItem(cart, itemId).items = cart.items
           /\ removeItem(cart, itemId).total = cart.total

\* C14: removeItem(id) sets a cart whose items are the items before other
\* than the one with that id, in their order, and whose total is the sum of
\* their lines; removing the only item gives no items and total 0;
\* removing an id that no item has leaves items and total as they are.
C14_RemoveDropsOneItem ==
    /\ [](sys = "cart" => RemoveAbsentAsSpecified)
    /\ [][RemoveStep => RemoveStepAsSpecified]_vars

\* the only item of the cart has been removed
C14_Witness ==
    /\ sys = "cart"
    /\ widget = "ready"
    /\ cart.items = <<>>
    /\ cart.total = 0
    /\ cart.notification.type = "info"
    /\ cart.notification.about \in ProductIds
    /\ notifTimers >= 1

\* C15: every add, quantity change and removal is followed, before any
\* further event, by a write of the whole cart to the storage, a change made
\* while a checkout is in progress included: the stored items and total are
\* those of the cart in memory.
C15_StorageNeverLags ==
    (sys = "cart" /\ widget = "ready") =>
        /\ storage.kind = "cart"
        /\ storage.cart.items = cart.items
        /\ storage.cart.total = cart.total

\* the step of the initial load
MountStep == sys = "cart" /\ widget = "unmounted" /\ widget' # "unmounted"

\* C16: the initial load always ends Ready with a well-formed cart: from a
\* stored cart of this component, the cart with the id, items and total it
\* was written with; from no entry, a fresh cart (no items, total 0, an id
\* derived from the time); from an unreadable entry or one without the
\* cart's fields, a Ready cart with a list of items, and no crash.
C16_LoadEndsReady ==
    [][MountStep =>
         /\ widget' = "ready"
         /\ ~cart'.isLoading
         /\ cart'.total = SumOfLines(cart'.items)
         /\ storage.kind = "cart" =>
               /\ cart'.id = storage.cart.id
               /\ cart'.items = storage.cart.items
               /\ cart'.total = storage.cart.total
         /\ storage.kind = "none" =>
               /\ cart'.id = "checkout_now"
               /\ cart'.items = <<>>
               /\ cart'.total = 0]_vars

---------------------------------------------------------------------------
(* Properties of the responses.                                            *)

\* C17: every 200 response to a read of one product or of a list of
\* products carries a Cache-Control header with a max-age of 3600, on the
\* product route of the middleware as on the routes of the API worker.
C17_ReadsAreCached ==
    (/\ sys = "server"
     /\ pc = "done"
     /\ result.kind = "response"
     /\ result.status = 200
     /\ result.body \in {"product", "products"})
        => result.maxAge = 3600

\* an error response of the product route
ProductErrorResponse ==
    /\ sys = "server"
    /\ OnProductRoute
    /\ pc = "done"
    /\ result.kind = "response"
    /\ result.body = "error"

\* C18: in every error response of the product route, whatever the failure
\* and the status, the message field differs from the raw diagnostic message
\* of the details field.
C18_MessageIsNotDetails ==
    ProductErrorResponse => result.message # result.details

\* the upstream has answered a GET on the product route with an envelope of
\* one error
AnsweredWithOneError ==
    /\ ProductErrorResponse
    /\ op.req.method = "GET"
    /\ lastReply.net
    /\ ResponseOk(lastReply)
    /\ lastReply.body.parses
    /\ lastReply.body.hasErrors
    /\ Len(lastReply.body.errors) = 1

\* C19: when the upstream envelope carries errors [{message: m}], the
\* product fetch fails with the message m and the route answers 404 if m
\* contains "404" and 500 otherwise; m = "Not found" gives 500.
C19_GraphQLErrorIs404Or500 ==
    AnsweredWithOneError =>
        LET m == lastReply.body.errors[1]
        IN  /\ result.details = m
            /\ result.status = IF Includes(m, <<"4", "0", "4">>) THEN 404 ELSE 500

---------------------------------------------------------------------------
(* Properties of the search widget.                                        *)

\* the recent searches are well formed: at most 5 terms, no term twice,
\* each of at least 2 characters
RecentWellFormed ==
    /\ Len(recentSearches) <= 5
    /\ \A i, j \in 1..Len(recentSearches) :
          recentSearches[i] = recentSearches[j] => i = j
    /\ \A i \in 1..Len(recentSearches) : Len(recentSearches[i]) >= 2

\* a step that changes the list puts one term in front, takes it out of the
\* places behind and keeps the first 4 of the other terms in their order;
\* in the widget it is the step of a search that returned a result
RecentStepAsSpecified ==
    LET term == recentSearches'[1]
        others == SelectSeq(recentSearches, LAMBDA s : s # term)
    IN  /\ recentSearches' # <<>>
        /\ Tail(recentSearches') =
              SubSeq(others, 1, IF Len(others) < 4 THEN Len(others) ELSE 4)
        /\ sys = "search" =>
              /\ Len(inflight') = Len(inflight) - 1
              /\ \E i \in 1..Len(inflight) : inflight[i] = term
              /\ results'.n > 0
              /\ results'.for = term

\* C20: after any searches the recent searches hold at most 5 terms, no
\* term twice, the most recent first, each of at least 2 characters and of
\* a search that returned a result; a repeated term moves to the front; the
\* stored list is the list in memory.
C20_RecentSearchesKept ==
    /\ [](RecentWellFormed /\ storedSearches = recentSearches)
    /\ [][recentSearches' # recentSearches => RecentStepAsSpecified]_vars

\* a full list whose first term was moved to the front from further down
C20_Witness ==
    /\ Len(recentSearches) = 5
    /\ Len(recentSearches[1]) = 3
    /\ Len(recentSearches[2]) = 7
    /\ Len(recentSearches[5]) = 2
    /\ storedSearches = recentSearches

\* the upstream calls that the request on the product route is due
CallsDue == IF op.req.method = "GET" /\ ~DemoMode THEN 1 ELSE 0

\* C23: handling one request on the product route performs at most one
\* upstream call: none for OPTIONS, for the methods other than GET and in
\* demo mode, exactly one for a GET of a configured store; no call follows
\* the response, and the route never retries (no second attempt, no backoff).
C23_OneUpstreamCallPerRequest ==
    /\ [](OnProductRoute =>
            /\ Len(sent) = CallsDue
            /\ currentTry = 0
            /\ delays = <<>>)
    /\ [][OnProductRoute /\ pc = "done" => Len(sent') <= Len(sent)]_vars

\* a GET of a configured store answered 200 after its one upstream call
C23_Witness ==
    /\ OnProductRoute
    /\ op.req.method = "GET"
    /\ pc = "done"
    /\ result.status = 200
    /\ Len(sent) = 1
    /\ lastReply # NoReply

\* an operation that has called queryStorefront
InQueryStorefront == op.kind \in StorefrontKinds /\ sent # <<>>

\* C24 as stated: queryStorefront with its default arguments tries the
\* upstream call a fixed total of 2 times.
C24_TwoAttemptsInAll == InQueryStorefront => Len(sent) <= 2

\* the attempts so far, the failed ones among them and the waits between them
AttemptsInStep ==
    /\ Len(sent) <= Retries + 1
    /\ IF pc = "backoff" \/ (pc = "done" /\ ~StorefrontAttempt(lastReply).ok)
       THEN currentTry = Len(sent)
       ELSE currentTry = Len(sent) - 1
    /\ Len(delays) = IF currentTry <= Retries THEN currentTry ELSE Retries
    /\ \A i \in 1..Len(delays) :
          delays[i] = IF i = 1 THEN 2000 ELSE 2 * delays[i - 1]

\* a failure ends queryStorefront only when it is that of attempt 3, and it
\* is the failure thrown; getProductByHandle's catch turns it into null
LastFailureThrown ==
    pc = "done" /\ ~StorefrontAttempt(lastReply).ok =>
        /\ Len(sent) = Retries + 1
        /\ op.kind # "getByHandle" =>
              /\ result.kind = "throw"
              /\ result.err = StorefrontAttempt(lastReply).err

\* C24, amended: queryStorefront with its default arguments tries the
\* upstream call at most 3 times in all, the first attempt and 2 retries: it
\* returns the first successful result without a further attempt, waits 2000
\* and then 4000 ms between attempts, throws the failure of the third attempt
\* when all three fail, and always terminates.
C24_ThreeAttemptsInAll ==
    /\ [](InQueryStorefront => AttemptsInStep /\ LastFailureThrown)
    /\ [][InQueryStorefront /\ Len(sent') > Len(sent) =>
            /\ pc = "backoff"
            /\ ~StorefrontAttempt(lastReply).ok
            /\ Len(sent') = Len(sent) + 1]_vars
    /\ [](InQueryStorefront => <>(pc = "done"))

\* the third attempt has failed after waits of 2000 and 4000 ms
C24_Witness ==
    /\ op.kind = "search"
    /\ pc = "done"
    /\ Len(sent) = 3
    /\ delays = <<2000, 4000>>
    /\ result.kind = "throw"

---------------------------------------------------------------------------
(* Properties of the cart's timers.                                        *)

\* the cart widget is mounted
CartReady == sys = "cart" /\ widget = "ready"

\* C25: every notification set by an add or a removal is cleared in the
\* end, in a cart read back from the storage after a reload as well: a
\* notification is never shown without a pending 3000 ms timer that will
\* clear it.
C25_NotificationHasTimer ==
    (CartReady /\ cart.notification # NoNotification) => notifTimers > 0

\* a step of the 3000 ms timer that clears a notification
ClearStep ==
    /\ CartReady
    /\ widget' = "ready"
    /\ cart.notification # NoNotification
    /\ cart'.notification = NoNotification

\* C27: a notification is cleared no sooner than 3000 ms after it was set:
\* the timer that clears it is the one its own event started, the last one
\* started, and not the timer of an earlier event that is still pending.
C27_ClearedByOwnTimer == [][ClearStep => notifTimers = 1]_vars

\* C29: from the click on Checkout until its 1000 ms timer fires the cart
\* is loading, so that the Checkout button is disabled and no second
\* checkout starts; an add, a quantity change or a removal in between does
\* not clear the flag.
C29_LoadingWhileCheckout ==
    (CartReady /\ checkoutTimers > 0) => (cart.isLoading /\ checkoutTimers = 1)

\* C30: the item that an add creates has the price that the event carries,
\* 0 included, and the total grows by that price.
C30_ItemPriceIsEventPrice ==
    CartReady =>
        \A productId \in ProductIds, productPrice \in EventPrices :
            findIndex(cart.items, productId) = 0 =>
                LET updatedItems == AddedItems(cart.items, productId, productPrice)
                IN  /\ updatedItems[Len(updatedItems)].price = productPrice
                    /\ ItemsTotal(updatedItems) = cart.total + productPrice

---------------------------------------------------------------------------
(* Properties of the price formatting.                                     *)

\* C21: a product returned by a read of the product service (get by id, get
\* by handle, search, featured, recent) carries a compare-at price only if
\* the compare-at minimum variant price is strictly greater than the minimum
\* variant price; when it is equal or lower the compare-at price is absent.
C21_CompareAtOnlyWhenGreater ==
    priced.read # "none" =>
        (priced.product.compareAtPrice.present
            => (priced.node.hasCompareAt
                /\ priced.node.compareAtAmount > priced.node.amount))

---------------------------------------------------------------------------
(* Properties of the search widget.                                        *)

\* a step that starts a search: one more upstream call is in flight
SearchStarts == Len(inflight') > Len(inflight)

\* the query that the step searches
Searched == inflight'[Len(inflight')]

\* the input has held the searched query for 300 ms: its timer fires in this
\* step, or has fired before
StoodForWindow == Searched = query /\ ~debounce'.armed

\* C22 as stated: the widget invokes a search for q only if q has at least 2
\* characters and the input has stayed equal to q for 300 ms.
C22_SearchOnlyAfterWindow ==
    [][SearchStarts => LongEnough(Searched) /\ StoodForWindow]_vars

\* the pending timer is that of the query in the input
TimerOfInput == debounce.armed => debounce.q = query /\ LongEnough(query)

\* the step is the 300 ms timer of the input's query firing
TimerSearches ==
    /\ debounce.armed
    /\ debounce.q = Searched
    /\ ~debounce'.armed

\* the step is a click on Try again
TryAgainSearches ==
    /\ searchError
    /\ isResultsOpen
    /\ debounce' = debounce

\* C22, amended: a search is invoked for the query in the input, of at least
\* 2 characters, either by the 300 ms timer armed at the last change of the
\* query or at once by the Try again button shown under an error; every
\* change of the query replaces or cancels the pending timer, so the timer
\* pending is always that of the query in the input and the timer never
\* searches a superseded query.
C22_DebouncedOrTryAgain ==
    /\ []TimerOfInput
    /\ [][SearchStarts =>
            /\ Searched = query
            /\ LongEnough(Searched)
            /\ TimerSearches \/ TryAgainSearches]_vars

\* the timer of a query typed in two changes has fired and its search is out
C22_Witness ==
    /\ query = <<"a", "a", "a">>
    /\ inflight = <<query>>
    /\ ~debounce.armed
    /\ ~searchError

\* the calls in flight without call i
Without(calls, i) == SubSeq(calls, 1, i - 1) \o SubSeq(calls, i + 1, Len(calls))

\* the widget takes up the answer to a search for searchQuery: its
\* products, none, or its failure
AnswerTaken(searchQuery) ==
    \/ /\ searchError'
       /\ results' = results
    \/ /\ searchError' = searchError
       /\ \/ results' = NoResults
          \/ results'.for = searchQuery /\ results'.n > 0

\* C26: a change of the input never cancels a search in flight; the results
\* shown are those of the response that resolved last, whichever query it
\* was issued for: every response is taken up as it resolves and products are
\* listed by no other step, so results of an earlier query than the input's
\* can be on show.
C26_LastResponseWins ==
    /\ [][query' # query => inflight' = inflight]_vars
    /\ [][Len(inflight') < Len(inflight) =>
            \E i \in 1..Len(inflight) :
                /\ inflight' = Without(inflight, i)
                /\ AnswerTaken(inflight[i])]_vars
    /\ [][results' # results /\ results' # NoResults =>
            Len(inflight') < Len(inflight)]_vars

\* the input holds 'aaa', its own search has been answered, and the list
\* shows the products of the earlier 'aa', whose answer came last
C26_Witness ==
    /\ query = <<"a", "a", "a">>
    /\ results.for = <<"a", "a">>
    /\ results.n > 0
    /\ isResultsOpen
    /\ ~searchError
    /\ inflight = <<>>
    /\ ~debounce.armed

\* C28: whenever the input holds fewer than 2 characters the results list
\* is empty and the searching indicator is off, also once a search for an
\* earlier, longer query resolves after the input was shortened or cleared.
C28_ShortInputShowsNothing ==
    (sys = "search" /\ Len(query) < 2) => (results = NoResults /\ ~isSearching)

=============================================================================
